---- MODULE Spec2Model ----
(***************************************************************************)
(* SteamTasteMatch: the background analysis pipeline (background.js, kept  *)
(* as src/unnamed/part_001) and the parts of the popup (popup.js,          *)
(* src/unnamed/part_000) that talk to it.                                  *)
(*                                                                         *)
(* The pipeline is one async function; the model gives every real suspend  *)
(* point (a storage call, a fetch, a timer, a notification) a value of pc  *)
(* and one action that resumes the pipeline there and runs it to its next  *)
(* suspend point.  chrome.storage.local.set takes effect when it is called;*)
(* the await after it is the suspend point.  Message listeners run to      *)
(* completion between two pipeline steps.                                  *)
(***************************************************************************)
EXTENDS Integers, Sequences, FiniteSets, TLC

\* ------------------------------------------------------------------------
\* Program constants
\* ------------------------------------------------------------------------
DELAY_BETWEEN_REQUESTS == 1000
Retries == 3
BackoffUnit == 1000
maxPages == 50
LastPageBelow == 10
PageDelay == 200
NumPerPage == 100
BatchDelay == 500
CooldownEvery == 10
Lookback == 2000

Null == "null"

Max(a, b) == IF a >= b THEN a ELSE b
Min(a, b) == IF a <= b THEN a ELSE b

\* ------------------------------------------------------------------------
\* HTML pages.  A page body is a sequence of pieces; len is the number of
\* characters of a piece, so that the offset of a piece is the sum of the
\* lengths before it.  A link piece is one match of href="[^"]*\/app\/(\d+),
\* a thumb piece one match of <img[^>]+src="...icon_thumbs(Up|Down)...".
\* ------------------------------------------------------------------------
Link(app, len) == [t |-> "link", app |-> app, up |-> FALSE, len |-> len]
Thumb(up, len) == [t |-> "thumb", app |-> 0, up |-> up, len |-> len]
Text(len) == [t |-> "text", app |-> 0, up |-> FALSE, len |-> len]

RECURSIVE Offset(_, _)
Offset(html, k) == IF k <= 1 THEN 0 ELSE Offset(html, k - 1) + html[k - 1].len

\* reviews.find(r => r.appId === appId && r.isPositive === isPositive)
HasReviewOfGame(reviews, appId, isPositive) ==
  \E n \in 1..Len(reviews) : reviews[n].appId = appId
HasReview(reviews, appId, isPositive) ==
  \E n \in 1..Len(reviews) :
    reviews[n].appId = appId /\ reviews[n].isPositive = isPositive

\* The app links that lie whole inside html.substring(searchStart, imgIndex).
AppLinksAnywhere(html, k) == {j \in 1..(k - 1) : html[j].t = "link"}
AppLinks(html, k) ==
  LET imgIndex == Offset(html, k)
      searchStart == Max(0, imgIndex - Lookback)
  IN {j \in 1..(k - 1) : html[j].t = "link" /\ Offset(html, j) >= searchStart}

SetMax(S) == CHOOSE x \in S : \A y \in S : y <= x

\* The loop of parseReviewsFromHTML over the vote images, in document order;
\* r.reviews is the list built so far, r.skipped the length of noAppId.
RECURSIVE ParseFrom(_, _, _)
ParseFrom(html, k, r) ==
  IF k > Len(html) THEN r
  ELSE IF html[k].t # "thumb" THEN ParseFrom(html, k + 1, r)
  ELSE LET appLinks == AppLinks(html, k)
       IN IF appLinks = {}
          THEN ParseFrom(html, k + 1, [r EXCEPT !.skipped = @ + 1])
          ELSE LET appId == html[SetMax(appLinks)].app
                   isPositive == html[k].up
               IN IF HasReview(r.reviews, appId, isPositive)
                  THEN ParseFrom(html, k + 1, r)
                  ELSE ParseFrom(html, k + 1,
                         [r EXCEPT !.reviews =
                            Append(@, [appId |-> appId, isPositive |-> isPositive])])

parseReviewsFromHTML(html) == ParseFrom(html, 1, [reviews |-> <<>>, skipped |-> 0])

\* ------------------------------------------------------------------------
\* JavaScript numbers.  agreementCount / overlapCount and the product by 100
\* are IEEE-754 binary64 operations, each rounded to 53 significant bits
\* (round to nearest, ties to even).  A bit string is a sequence of 0/1,
\* most significant bit first.  A positive double has kind "num" and is the
\* 53-bit integer bits times 2^exp; the other kinds are "zero", "nan", "inf".
\* ------------------------------------------------------------------------
Mantissa == 53

RECURSIVE Pow2(_)
Pow2(n) == IF n = 0 THEN 1 ELSE 2 * Pow2(n - 1)

\* 2^n modulo o, by repeated squaring (o is small: the products fit).
RECURSIVE Pow2Mod(_, _)
Pow2Mod(n, o) ==
  IF n = 0 THEN 1 % o
  ELSE IF n % 2 = 1 THEN (2 * Pow2Mod(n - 1, o)) % o
  ELSE LET h == Pow2Mod(n \div 2, o) IN (h * h) % o

RECURSIVE NatBits(_)
NatBits(n) == IF n = 0 THEN <<>> ELSE Append(NatBits(n \div 2), n % 2)

RECURSIVE BitsNat(_)
BitsNat(b) ==
  IF Len(b) = 0 THEN 0 ELSE 2 * BitsNat(SubSeq(b, 1, Len(b) - 1)) + b[Len(b)]

Zeros(n) == [k \in 1..n |-> 0]

\* b + 1 on a bit string that is not all ones.
IncBits(b) ==
  LET p == CHOOSE k \in 1..Len(b) : b[k] = 0 /\ \A j \in (k + 1)..Len(b) : b[j] = 1
  IN [k \in 1..Len(b) |-> IF k < p THEN b[k] ELSE IF k = p THEN 1 ELSE 0]

StripZeros(b) ==
  IF \A k \in 1..Len(b) : b[k] = 0 THEN <<>>
  ELSE LET p == CHOOSE k \in 1..Len(b) : b[k] = 1 /\ \A j \in 1..(k - 1) : b[j] = 0
       IN SubSeq(b, p, Len(b))

\* Limbs: a number as a sequence of digits in base 2^LimbBits, most
\* significant first, so that a digit times 100 fits the machine integer.
LimbBits == 15
Limbs(b) ==
  LET n == (Len(b) + LimbBits - 1) \div LimbBits
      pad == Zeros(n * LimbBits - Len(b)) \o b
  IN [k \in 1..n |-> BitsNat(SubSeq(pad, (k - 1) * LimbBits + 1, k * LimbBits))]
LimbsBits(l) ==
  [k \in 1..(Len(l) * LimbBits) |->
     (l[(k - 1) \div LimbBits + 1] \div Pow2(LimbBits - 1 - ((k - 1) % LimbBits))) % 2]

\* l * c on limbs, with one more limb for the carry out.
RECURSIVE MulFrom(_, _, _, _)
MulFrom(l, c, k, carry) ==
  IF k = 0 THEN <<carry>>
  ELSE LET v == l[k] * c + carry
       IN Append(MulFrom(l, c, k - 1, v \div Pow2(LimbBits)), v % Pow2(LimbBits))
MulBits(b, c) == StripZeros(LimbsBits(MulFrom(Limbs(b), c, Len(Limbs(b)), 0)))

\* Round the positive number b * 2^exp (b a bit string with leading 1, plus a
\* non-zero tail below its last bit when sticky) to a double.
RoundToDouble(b, exp, sticky) ==
  IF Len(b) <= Mantissa
  THEN [kind |-> "num", bits |-> b \o Zeros(Mantissa - Len(b)),
        exp |-> exp - (Mantissa - Len(b))]
  ELSE LET keep == SubSeq(b, 1, Mantissa)
           guard == b[Mantissa + 1]
           rest == sticky \/ \E k \in (Mantissa + 2)..Len(b) : b[k] = 1
           up == guard = 1 /\ (rest \/ keep[Mantissa] = 1)
           e == exp + (Len(b) - Mantissa)
       IN IF ~up THEN [kind |-> "num", bits |-> keep, exp |-> e]
          ELSE IF \A k \in 1..Mantissa : keep[k] = 1
               THEN [kind |-> "num", bits |-> <<1>> \o Zeros(Mantissa - 1), exp |-> e + 1]
               ELSE [kind |-> "num", bits |-> IncBits(keep), exp |-> e]

\* Long division: bit k after the leading one of (o + r) / o, r < o, is
\* floor(2 * (r * 2^(k-1) mod o) / o).
DivBit(r, o, k) == IF 2 * ((r * Pow2Mod(k - 1, o)) % o) >= o THEN 1 ELSE 0

RECURSIVE ShiftUp(_, _, _)
ShiftUp(a, o, s) == IF a >= o THEN [a |-> a, s |-> s] ELSE ShiftUp(2 * a, o, s + 1)

\* The double a / o, for 0 < a <= o.
FDiv(a, o) ==
  LET sh == ShiftUp(a, o, 0)
      r == sh.a - o
      q == [k \in 1..(Mantissa + 1) |-> IF k = 1 THEN 1 ELSE DivBit(r, o, k - 1)]
  IN RoundToDouble(q, 0 - sh.s - Mantissa, (r * Pow2Mod(Mantissa, o)) % o # 0)

\* The double x * 100.
FMul100(x) == RoundToDouble(MulBits(x.bits, 100), x.exp, FALSE)

\* (a / o) * 100 as JavaScript computes it, for 0 <= a <= o.
NotNum(kind) == [kind |-> kind, bits |-> <<>>, exp |-> 0]
Percent(a, o) ==
  IF o = 0 THEN IF a = 0 THEN NotNum("nan") ELSE NotNum("inf")
  ELSE IF a = 0 THEN NotNum("zero")
  ELSE FMul100(FDiv(a, o))

\* x >= y on bit strings without leading zeros.
BitsGeq(x, y) ==
  IF Len(x) # Len(y) THEN Len(x) > Len(y)
  ELSE IF \A k \in 1..Len(x) : x[k] = y[k] THEN TRUE
  ELSE LET d == CHOOSE k \in 1..Len(x) : x[k] # y[k] /\ \A j \in 1..(k - 1) : x[j] = y[j]
       IN x[d] > y[d]

\* v >= m in JavaScript, m an integer: false when v is NaN.
FGeq(v, m) ==
  IF v.kind = "nan" THEN FALSE
  ELSE IF v.kind = "inf" THEN TRUE
  ELSE IF v.kind = "zero" THEN 0 >= m
  ELSE IF m <= 0 THEN TRUE
  ELSE IF v.exp >= 0 THEN TRUE
  ELSE BitsGeq(v.bits, NatBits(m) \o Zeros(0 - v.exp))

\* Math.round(v) for 0 <= v < 2^31: floor(v + 0.5).
MathRound(v) ==
  IF v.kind = "zero" THEN 0
  ELSE LET n == Mantissa + v.exp
       IN IF n < 0 THEN 0
          ELSE IF n = 0 THEN 1
          ELSE IF n >= Mantissa THEN BitsNat(v.bits \o Zeros(v.exp))
          ELSE BitsNat(SubSeq(v.bits, 1, n)) + v.bits[n + 1]

\* ------------------------------------------------------------------------
\* Scoring Engine: calculateScore
\* ------------------------------------------------------------------------
Review(appId, isPositive) == [appId |-> appId, isPositive |-> isPositive]

\* userReviewMap.has(appId) and userReviewMap.get(appId): the map is filled
\* in list order, so the last entry of a game is the one it keeps.
MapHas(userReviews, appId) == \E n \in 1..Len(userReviews) : userReviews[n].appId = appId
MapGet(userReviews, appId) ==
  LET last == CHOOSE n \in 1..Len(userReviews) :
                /\ userReviews[n].appId = appId
                /\ \A j \in (n + 1)..Len(userReviews) : userReviews[j].appId # appId
  IN userReviews[last].isPositive

overlapCount(userReviews, reviews) ==
  Cardinality({n \in 1..Len(reviews) : MapHas(userReviews, reviews[n].appId)})
agreementCount(userReviews, reviews) ==
  Cardinality({n \in 1..Len(reviews) :
                 /\ MapHas(userReviews, reviews[n].appId)
                 /\ MapGet(userReviews, reviews[n].appId) = reviews[n].isPositive})

\* if (overlapCount >= minOverlap) { similarity = ...; if (similarity >= minSimilarity)
IsMatching(userReviews, reviews, minOverlap, minSimilarity) ==
  LET o == overlapCount(userReviews, reviews)
      a == agreementCount(userReviews, reviews)
  IN o >= minOverlap /\ FGeq(Percent(a, o), minSimilarity)

\* reviewer.reviews.find(r => r.appId === targetAppId), then && .isPositive
TargetPositiveAnywhere(reviews, targetAppId) ==
  \E n \in 1..Len(reviews) : reviews[n] = Review(targetAppId, TRUE)
TargetPositive(reviews, targetAppId) ==
  /\ \E n \in 1..Len(reviews) : reviews[n].appId = targetAppId
  /\ LET first == CHOOSE n \in 1..Len(reviews) :
                    /\ reviews[n].appId = targetAppId
                    /\ \A j \in 1..(n - 1) : reviews[j].appId # targetAppId
     IN reviews[first].isPositive

RECURSIVE SumOver(_, _, _)
SumOver(f, lo, hi) ==
  IF lo > hi THEN 0
  ELSE IF lo = hi THEN f[lo]
  ELSE LET mid == (lo + hi) \div 2 IN SumOver(f, lo, mid) + SumOver(f, mid + 1, hi)

\* avgOverlap is the double totalOverlap / matchingReviewers; it is kept as
\* the pair [num, den] of the quotient it rounds.
calculateScore(userReviews, reviewerData, targetAppId, minOverlap, minSimilarity) ==
  LET matching == {k \in 1..Len(reviewerData) :
                     IsMatching(userReviews, reviewerData[k].reviews, minOverlap, minSimilarity)}
      matchingReviewers == Cardinality(matching)
      positiveCount == Cardinality({k \in matching :
                                      TargetPositive(reviewerData[k].reviews, targetAppId)})
      ov == [k \in 1..Len(reviewerData) |->
               IF k \in matching THEN overlapCount(userReviews, reviewerData[k].reviews) ELSE 0]
      totalOverlap == SumOver(ov, 1, Len(reviewerData))
  IN [score |-> IF matchingReviewers > 0
                THEN MathRound(Percent(positiveCount, matchingReviewers)) ELSE 0,
      totalReviewers |-> Len(reviewerData),
      matchingReviewers |-> matchingReviewers,
      positiveCount |-> positiveCount,
      avgOverlap |-> IF matchingReviewers > 0
                     THEN [num |-> totalOverlap, den |-> matchingReviewers]
                     ELSE [num |-> 0, den |-> 1],
      minOverlap |-> minOverlap,
      minSimilarity |-> minSimilarity]

\* ------------------------------------------------------------------------
\* Bounds of the environment
\* ------------------------------------------------------------------------
\* The subject's profile of the modelled Steam has at most this many full
\* pages (the profiles of the reviewers have one page).
MaxFullPages == 1
\* Reviewers with a steamid up to this one have a profile whose content
\* varies; the profiles of the others are private.
MaxVaried == 1
\* Pipeline instances the model has room for.
MaxInst == 2

Inst == 1..MaxInst

\* ------------------------------------------------------------------------
\* The modelled Steam: page bodies and feed responses
\* ------------------------------------------------------------------------
ReviewHtml(app, up) == <<Link(app, 40), Text(100), Thumb(up, 80)>>

RECURSIVE PageHtml(_)
PageHtml(reviews) ==
  IF Len(reviews) = 0 THEN <<Text(300)>>
  ELSE PageHtml(SubSeq(reviews, 1, Len(reviews) - 1))
         \o ReviewHtml(reviews[Len(reviews)].appId, reviews[Len(reviews)].isPositive)

PrivatePage == PageHtml(<<>>)
FullPage == PageHtml([k \in 1..LastPageBelow |-> Review(k, TRUE)])
SubjectLastPage == PageHtml(<<Review(1, TRUE), Review(2, FALSE)>>)
ReviewerLastPage == PageHtml(<<Review(1, TRUE), Review(2, FALSE), Review(20, TRUE)>>)

\* What a profile page request may answer with.
ProfileBodies(caller, steamId, page) ==
  IF caller = "user"
  THEN {PrivatePage, SubjectLastPage} \cup (IF page <= MaxFullPages THEN {FullPage} ELSE {})
  ELSE IF steamId <= MaxVaried THEN {PrivatePage, ReviewerLastPage}
       ELSE {PrivatePage}

\* A feed response: parses says whether the body is JSON at all; n is
\* reviews.length (0 also stands for an absent reviews field).
Feed(parses, success, n, cursor) ==
  [parses |-> parses, success |-> success, n |-> n, cursor |-> cursor]
FeedBodies ==
  {Feed(FALSE, FALSE, 0, FALSE), Feed(TRUE, FALSE, 0, FALSE), Feed(TRUE, TRUE, 0, TRUE)}
    \cup {Feed(TRUE, TRUE, n, c) : n \in {1, NumPerPage}, c \in BOOLEAN}

NoBody == [html |-> <<>>, json |-> Feed(FALSE, FALSE, 0, FALSE)]

\* ------------------------------------------------------------------------
\* Inputs of a start request
\* ------------------------------------------------------------------------
\* The Steam ID field: whether it contains 'steamcommunity.com', the digits
\* after /profiles/ and the name after /id/ when present, and otherwise its
\* text without trailing slashes (digits says whether that is all digits).
SteamIdInput(hasDomain, profileDigits, idName, text, digits) ==
  [hasDomain |-> hasDomain, profileDigits |-> profileDigits, idName |-> idName,
   text |-> text, digits |-> digits]
NumericId == SteamIdInput(FALSE, Null, Null, "76561198000000001", TRUE)
GroupUrl == SteamIdInput(TRUE, Null, Null, "https://steamcommunity.com/groups/x", FALSE)

NoId == [id |-> Null, digits |-> FALSE]
parseSteamId(input) ==
  IF input.text = "" THEN NoId
  ELSE IF input.hasDomain
       THEN IF input.profileDigits # Null THEN [id |-> input.profileDigits, digits |-> TRUE]
            ELSE IF input.idName # Null THEN [id |-> input.idName, digits |-> FALSE]
            ELSE NoId
       ELSE [id |-> input.text, digits |-> input.digits]

Params(steamId, maxProfiles) ==
  [appId |-> 20, steamId |-> steamId, minOverlap |-> 2, minSimilarity |-> 50,
   maxProfiles |-> maxProfiles]
StartParams == {Params(NumericId, 2), Params(NumericId, NumPerPage + 1), Params(GroupUrl, 2)}

\* ------------------------------------------------------------------------
\* State
\* ------------------------------------------------------------------------
VARIABLES
  analysisInProgress,   \* let analysisInProgress
  shouldCancel,         \* let shouldCancel
  storage,              \* chrome.storage.local: the observable record
  run,                  \* the invocations of startBackgroundAnalysis
  dropped,              \* history: a start request was ignored since the last start
  parseInput,           \* parseReviewsFromHTML: the argument html
  parseOutput,          \* parseReviewsFromHTML: <<>>, or <<r>> with r what it returned
  scoreInput,           \* calculateScore: the arguments
  scoreOutput           \* calculateScore: <<>>, or <<r>> with r what it returned

pipeVars == <<analysisInProgress, shouldCancel, storage, run, dropped>>
callVars == <<parseInput, parseOutput, scoreInput, scoreOutput>>
vars == <<analysisInProgress, shouldCancel, storage, run, dropped,
          parseInput, parseOutput, scoreInput, scoreOutput>>

\* An absent value of the record is Null; a result is <<>> (absent) or <<r>>.
NoResult == <<>>

\* The locals of one invocation.  pc = "idle": no invocation in this place.
\* cancelStage, ended, handed, discoveryError, formsTried and sizes are
\* history: the stage at which the first cancel of the run arrived, how the
\* last run ended, the number of reviewers handed to the collector, whether
\* discovery met a transport error, the profile forms requested for the
\* reviewer at hand, the numbers of reviews extracted from the pages of the
\* profile at hand.  They are never read by the pipeline.
IdleRun ==
  [pc |-> "idle", params |-> Params(NumericId, 2),
   userReviews |-> <<>>, gameReviewers |-> <<>>, reviewerData |-> <<>>,
   result |-> NoResult, err |-> Null,
   reviewers |-> <<>>, totalFetched |-> 0, requestCount |-> 0,
   processed |-> 0, successCount |-> 0, privateProfileCount |-> 0, reviews |-> <<>>,
   caller |-> "none", form |-> "none", page |-> 0, allReviews |-> <<>>,
   fwrCaller |-> "none", i |-> 0, delayMs |-> 0, resp |-> NoBody,
   cancelStage |-> "none", ended |-> "none", handed |-> 0, discoveryError |-> FALSE,
   formsTried |-> {}, sizes |-> <<>>]

Active(i) == run[i].pc # "idle"

\* The service worker after its script has run: no analysis.
NoAnalysis ==
  /\ analysisInProgress = FALSE
  /\ shouldCancel = FALSE
  /\ storage = [analysisRunning |-> FALSE, analysisProgress |-> Null,
                analysisResult |-> NoResult, analysisError |-> Null]
  /\ run = [i \in Inst |-> IdleRun]
  /\ dropped = FALSE

\* The arguments of calculateScore.
ScoreArgs(userReviews, reviewerData, targetAppId, minOverlap, minSimilarity) ==
  [userReviews |-> userReviews, reviewerData |-> reviewerData, targetAppId |-> targetAppId,
   minOverlap |-> minOverlap, minSimilarity |-> minSimilarity]

\* No call of parseReviewsFromHTML or calculateScore is being looked at.
NoCall ==
  /\ parseInput = <<>>
  /\ parseOutput = <<>>
  /\ scoreInput = ScoreArgs(<<>>, <<>>, 0, 0, 0)
  /\ scoreOutput = <<>>

Init == NoAnalysis /\ NoCall

\* ------------------------------------------------------------------------
\* The pipeline.  The operators below are the code between two suspend
\* points: each takes the locals r, the record st and the flag sc as they
\* are when the pipeline resumes and gives the locals and the record at the
\* next suspend point.  await logProgress(...) is a suspend point that
\* leaves the four modelled keys of the record alone.
\* ------------------------------------------------------------------------
M(r, st) == [r |-> r, st |-> st]

\* updateProgress(text): chrome.storage.local.set({ analysisProgress: text })
updateProgress(st, text) == [st EXCEPT !.analysisProgress = text]

\* The locals of fetchAllReviewsFromProfile and fetchWithRetry, dropped when
\* they return or raise.
DropFetch(r) ==
  [r EXCEPT !.caller = "none", !.form = "none", !.page = 0, !.allReviews = <<>>,
            !.fwrCaller = "none", !.i = 0, !.delayMs = 0, !.resp = NoBody,
            !.sizes = <<>>]
DropRetry(r) == [r EXCEPT !.fwrCaller = "none", !.i = 0, !.delayMs = 0, !.resp = NoBody]

\* analyzeGame, catch (error): logProgress, then throw error.
AnalyzeGameThrow(r, st, msg) == M([DropFetch(r) EXCEPT !.pc = "ag_catch", !.err = msg], st)

\* fetchWithRetry raises msg into the catch of the function that called it.
FetchWithRetryRaise(r, st, msg) ==
  IF r.fwrCaller = "profile"
  THEN M([DropRetry(r) EXCEPT !.pc = "farp_catch", !.err = msg], st)
  ELSE M([DropRetry(r) EXCEPT !.pc = "fgr_catch", !.err = msg,
                              !.discoveryError = (msg = "Transport")], st)

\* fetchWithRetry, top of the for loop: if (shouldCancel) throw; await fetch(url)
FetchWithRetryAttemptNoCheck(r, st, sc) == M([r EXCEPT !.pc = "fwr_fetch"], st)
FetchWithRetryAttempt(r, st, sc) ==
  IF sc THEN FetchWithRetryRaise(r, st, "Cancelled")
  ELSE M([r EXCEPT !.pc = "fwr_fetch"], st)

fetchWithRetry(r, st, sc, caller) ==
  FetchWithRetryAttempt([r EXCEPT !.fwrCaller = caller, !.i = 0], st, sc)

\* fetchWithRetry, catch (error): the last attempt logs and throws, the
\* others wait 1000 * (i + 1) ms.
BackoffFlat(i) == BackoffUnit
Backoff(i) == BackoffUnit * (i + 1)
IsLastAttempt(i) == i = Retries - 1
FetchWithRetryCatch(r, st) ==
  IF IsLastAttempt(r.i) THEN M([r EXCEPT !.pc = "fwr_faillog", !.resp = NoBody], st)
  ELSE M([r EXCEPT !.pc = "fwr_backoff", !.delayMs = Backoff(r.i), !.resp = NoBody], st)

\* fetchAllReviewsFromProfile, after the while loop: logProgress(TOTAL ...)
FetchAllAfterLoopNoneOnError(r, st) ==
  M([r EXCEPT !.pc = "farp_total", !.err = Null,
              !.allReviews = IF r.err # Null THEN <<>> ELSE @], st)
FetchAllAfterLoop(r, st) == M([r EXCEPT !.pc = "farp_total", !.err = Null], st)

\* fetchAllReviewsFromProfile, top of the while loop
FetchAllLoopNoCeiling(r, st) == M([r EXCEPT !.pc = "farp_log"], st)
FetchAllLoop(r, st) ==
  IF r.page <= maxPages THEN M([r EXCEPT !.pc = "farp_log"], st)
  ELSE FetchAllAfterLoop(r, st)

fetchAllReviewsFromProfile(r, st, caller, form) ==
  FetchAllLoop([r EXCEPT !.caller = caller, !.form = form, !.page = 1,
                         !.allReviews = <<>>, !.sizes = <<>>,
                         !.formsTried = IF caller = "reviewer" THEN @ \cup {form} ELSE @],
               st)

\* fetchUserReviews, up to its first suspend point
fetchUserReviews(r, st) ==
  LET cleanedId == parseSteamId(r.params.steamId)
  IN IF cleanedId.id = Null THEN AnalyzeGameThrow(r, st, "InvalidSteamId")
     ELSE fetchAllReviewsFromProfile(r, st, "user",
                                     IF cleanedId.digits THEN "profiles" ELSE "id")

\* fetchUserReviews after fetchAllReviewsFromProfile, then analyzeGame up to
\* logProgress(`Found ... of your reviews`)
FetchUserReviewsReturn(r, st, sc) ==
  IF Len(r.allReviews) = 0 THEN AnalyzeGameThrow(r, st, "CouldNotFetch")
  ELSE IF sc THEN AnalyzeGameThrow(r, st, "Cancelled")
  ELSE M([DropFetch(r) EXCEPT !.pc = "ag_log2", !.userReviews = r.allReviews], st)

\* fetchGameReviewers, after the while loop: slice and logProgress
FetchGameReviewersAfterLoopNoneOnError(r, st) ==
  M([r EXCEPT !.pc = "fgr_done", !.err = Null,
              !.gameReviewers = IF r.err # Null THEN <<>>
                                ELSE SubSeq(r.reviewers, 1,
                                            Min(Len(r.reviewers), r.params.maxProfiles))], st)
FetchGameReviewersAfterLoopNoSlice(r, st) ==
  M([r EXCEPT !.pc = "fgr_done", !.err = Null, !.gameReviewers = r.reviewers], st)
FetchGameReviewersAfterLoop(r, st) ==
  M([r EXCEPT !.pc = "fgr_done", !.err = Null,
              !.gameReviewers = SubSeq(r.reviewers, 1,
                                       Min(Len(r.reviewers), r.params.maxProfiles))], st)

\* fetchGameReviewers, top of the while loop
FetchGameReviewersLoop(r, st, sc) ==
  IF r.totalFetched < r.params.maxProfiles /\ ~sc
  THEN M([r EXCEPT !.pc = "fgr_reqlog", !.requestCount = @ + 1], st)
  ELSE FetchGameReviewersAfterLoop(r, st)

\* fetchGameReviewers with the response text: JSON.parse and the two breaks
FetchGameReviewersResponse(r, st) ==
  LET data == r.resp.json
  IN IF ~data.parses
     THEN M([DropRetry(r) EXCEPT !.pc = "fgr_catch", !.err = "Parse"], st)
     ELSE IF ~data.success \/ data.n = 0
          THEN M([DropRetry(r) EXCEPT !.pc = "fgr_break"], st)
          ELSE M([r EXCEPT !.pc = "fgr_recv", !.fwrCaller = "none", !.i = 0], st)

\* analyzeGame after fetchGameReviewers
FetchGameReviewersReturn(r, st, sc) ==
  LET r1 == [r EXCEPT !.reviewers = <<>>, !.totalFetched = 0, !.requestCount = 0]
  IN IF sc THEN AnalyzeGameThrow(r1, st, "Cancelled")
     ELSE IF Len(r.gameReviewers) = 0 THEN AnalyzeGameThrow(r1, st, "NoReviewers")
     ELSE M([r1 EXCEPT !.pc = "ag_log4"], st)

\* fetchAllReviewerData, after the for loop: the four logProgress calls
FetchAllReviewerDataAfterLoop(r, st) == M([r EXCEPT !.pc = "fard_summary"], st)

\* fetchAllReviewerData, top of the for loop, up to updateProgress
FetchAllReviewerDataLoopNoCancel(r, st, sc) ==
  IF r.processed >= Len(r.gameReviewers)
  THEN FetchAllReviewerDataAfterLoop(r, st)
  ELSE M([r EXCEPT !.pc = "fard_progress", !.processed = @ + 1, !.formsTried = {}],
         updateProgress(st, "Profile"))
FetchAllReviewerDataLoop(r, st, sc) ==
  IF r.processed >= Len(r.gameReviewers) \/ sc
  THEN FetchAllReviewerDataAfterLoop(r, st)
  ELSE M([r EXCEPT !.pc = "fard_progress", !.processed = @ + 1, !.formsTried = {}],
         updateProgress(st, "Profile"))

\* fetchReviewerReviews around fetchAllReviewsFromProfile: the try returns
\* the list; a raise of the numeric form leads to the vanity form, a raise
\* of that to [].  Then fetchAllReviewerData up to the logProgress of the
\* outcome.
FetchReviewerReviewsReturn(r, st, raised) ==
  IF raised /\ r.form = "profiles"
  THEN fetchAllReviewsFromProfile(r, st, "reviewer", "id")
  ELSE M([DropFetch(r) EXCEPT !.pc = "fard_outcome",
                              !.reviews = IF raised THEN <<>> ELSE r.allReviews], st)

\* Every statement of fetchAllReviewsFromProfile that can raise is inside
\* its try, and its catch and logProgress raise nothing.
FetchAllRaises == FALSE

\* analyzeGame after fetchAllReviewerData
FetchAllReviewerDataReturn(r, st, sc) ==
  IF sc THEN AnalyzeGameThrow(r, st, "Cancelled")
  ELSE M([r EXCEPT !.pc = "ag_log6"], st)

\* ------------------------------------------------------------------------
\* Messages.  chrome.runtime.onMessage has two listeners; a message runs the
\* first, then the second, each to completion.  g is the state a listener
\* works on: the two flags, the record and the invocations.
\* ------------------------------------------------------------------------
G(aip, sc, st, rn) == [aip |-> aip, sc |-> sc, st |-> st, run |-> rn]

\* The stage an invocation is in, for the history of cancel requests.
Stage(r) ==
  IF r.pc \in {"sba_init", "ag_progress1", "ag_log1"} \/ r.caller = "user" THEN "subject"
  ELSE IF r.pc \in {"ag_log2", "ag_progress2", "ag_log3", "fgr_log0", "fgr_reqlog", "fgr_recv",
                    "fgr_progress", "fgr_totlog", "fgr_delay", "fgr_break", "fgr_catch",
                    "fgr_done"} \/ r.fwrCaller = "discovery" THEN "discovery"
  ELSE IF r.pc \in {"ag_log4", "ag_progress3", "ag_log5", "fard_log0"} THEN "precollection"
  ELSE IF r.pc \in {"fard_progress", "fard_log", "fard_outcome", "fard_cooldown"}
          \/ r.caller = "reviewer" THEN "collection"
  ELSE IF r.pc \in {"fard_summary", "ag_log6", "ag_progress4", "ag_log7"} THEN "scoring"
  ELSE IF r.pc = "ag_catch" THEN "failing"
  ELSE "terminal"

\* startBackgroundAnalysis up to its first await: the flags and the initial
\* record.  The invocation takes the first free place of run.
startBackgroundAnalysis(g, params) ==
  IF \A i \in Inst : g.run[i].pc # "idle" THEN g
  ELSE LET slot == CHOOSE i \in Inst :
                     g.run[i].pc = "idle" /\ \A j \in 1..(i - 1) : g.run[j].pc # "idle"
       IN G(TRUE, FALSE,
            [analysisRunning |-> TRUE, analysisProgress |-> "Starting",
             analysisResult |-> NoResult, analysisError |-> Null],
            [g.run EXCEPT ![slot] = [IdleRun EXCEPT !.pc = "sba_init", !.params = params]])

\* if (!analysisInProgress) startBackgroundAnalysis(message.data)
StartAlways(g, params) == startBackgroundAnalysis(g, params)
StartIfIdle(g, params) ==
  IF ~g.aip THEN startBackgroundAnalysis(g, params) ELSE g

\* message.action === 'cancelAnalysis', first listener
CancelFirst(g) == [g EXCEPT !.sc = TRUE]

\* message.action === 'cancelAnalysis', second listener
CancelSecondFlagOnly(g) == [g EXCEPT !.sc = TRUE]
CancelSecond(g) ==
  [g EXCEPT !.sc = TRUE,
            !.st = [@ EXCEPT !.analysisRunning = FALSE, !.analysisProgress = "Cancelled"]]

Now == G(analysisInProgress, shouldCancel, storage, run)
Becomes(g) ==
  /\ analysisInProgress' = g.aip
  /\ shouldCancel' = g.sc
  /\ storage' = g.st
  /\ run' = g.run

StartMessage ==
  \E params \in StartParams :
    LET g == StartIfIdle(StartIfIdle(Now, params), params)
    IN Becomes(g) /\ dropped' = (g.run = run) /\ UNCHANGED callVars

CancelMessage ==
  LET g == CancelSecond(CancelFirst(Now))
      noted == [i \in Inst |->
                  IF Active(i) /\ run[i].cancelStage = "none"
                  THEN [g.run[i] EXCEPT !.cancelStage = Stage(run[i])]
                  ELSE g.run[i]]
  IN Becomes([g EXCEPT !.run = noted]) /\ UNCHANGED <<dropped, callVars>>

\* ------------------------------------------------------------------------
\* The pipeline's steps
\* ------------------------------------------------------------------------
Resume(i, m) ==
  /\ run' = [run EXCEPT ![i] = m.r]
  /\ storage' = m.st
  /\ UNCHANGED <<analysisInProgress, shouldCancel, dropped>>
  /\ UNCHANGED callVars

At(i, pc) == run[i].pc = pc
Goto(i, pc) == Resume(i, M([run[i] EXCEPT !.pc = pc], storage))

\* startBackgroundAnalysis, the end: the flags are cleared.
Finish(i, ended) ==
  /\ analysisInProgress' = FALSE
  /\ shouldCancel' = FALSE
  /\ run' = [run EXCEPT ![i] = [IdleRun EXCEPT !.ended = ended,
                                               !.cancelStage = run[i].cancelStage,
                                               !.processed = run[i].processed,
                                               !.handed = run[i].handed,
                                               !.discoveryError = run[i].discoveryError]]
  /\ UNCHANGED <<storage, dropped>>
  /\ UNCHANGED callVars

\* The terminal records
CompleteRecord(st, result) ==
  [st EXCEPT !.analysisRunning = FALSE, !.analysisProgress = "Complete",
             !.analysisResult = result, !.analysisError = Null]
CancelledRecord(st) ==
  [st EXCEPT !.analysisRunning = FALSE, !.analysisProgress = "Cancelled",
             !.analysisResult = NoResult, !.analysisError = Null]
ErrorRecord(st, msg) ==
  [st EXCEPT !.analysisRunning = FALSE, !.analysisProgress = "Error",
             !.analysisError = msg]

\* analyzeGame: updateProgress('Fetching your review history...')
ResumeSbaInit ==
  \E i \in Inst : At(i, "sba_init") /\
    Resume(i, M([run[i] EXCEPT !.pc = "ag_progress1"], updateProgress(storage, "Fetching")))

ResumeAgProgress1 == \E i \in Inst : At(i, "ag_progress1") /\ Goto(i, "ag_log1")

ResumeAgLog1 == \E i \in Inst : At(i, "ag_log1") /\ Resume(i, fetchUserReviews(run[i], storage))

\* --- fetchAllReviewsFromProfile
ResumeFarpLog ==
  \E i \in Inst : At(i, "farp_log") /\
    Resume(i, fetchWithRetry(run[i], storage, shouldCancel, "profile"))

\* const reviews = await parseReviewsFromHTML(html, false); logProgress(Found)
ProfileText(r, st, html) ==
  LET reviews == parseReviewsFromHTML(html).reviews
  IN M([DropRetry(r) EXCEPT !.pc = "farp_found", !.reviews = reviews,
                            !.sizes = Append(@, Len(reviews))], st)

\* if (reviews.length === 0) break; push; if (reviews.length < 10) break;
\* page++; await delay(200)
FarpFoundNoLastPage(r, st) ==
  IF Len(r.reviews) = 0 THEN FetchAllAfterLoop([r EXCEPT !.reviews = <<>>], st)
  ELSE M([r EXCEPT !.allReviews = @ \o r.reviews, !.reviews = <<>>,
                   !.pc = "farp_delay", !.page = @ + 1, !.delayMs = PageDelay], st)
FarpFound(r, st) ==
  IF Len(r.reviews) = 0 THEN FetchAllAfterLoop([r EXCEPT !.reviews = <<>>], st)
  ELSE LET r1 == [r EXCEPT !.allReviews = @ \o r.reviews, !.reviews = <<>>]
       IN IF Len(r.reviews) < LastPageBelow THEN FetchAllAfterLoop(r1, st)
          ELSE M([r1 EXCEPT !.pc = "farp_delay", !.page = @ + 1, !.delayMs = PageDelay], st)

ResumeFarpFound == \E i \in Inst : At(i, "farp_found") /\ Resume(i, FarpFound(run[i], storage))

ResumeFarpDelay ==
  \E i \in Inst : At(i, "farp_delay") /\
    Resume(i, FetchAllLoop([run[i] EXCEPT !.delayMs = 0], storage))

ResumeFarpCatch ==
  \E i \in Inst : At(i, "farp_catch") /\ Resume(i, FetchAllAfterLoop(run[i], storage))

ResumeFarpTotal ==
  \E i \in Inst : At(i, "farp_total") /\
    Resume(i, IF run[i].caller = "user"
              THEN FetchUserReviewsReturn(run[i], storage, shouldCancel)
              ELSE FetchReviewerReviewsReturn(run[i], storage, FetchAllRaises))

\* --- fetchWithRetry
\* fetch resolves with response.ok: await response.text()
FetchResponds == \E i \in Inst : At(i, "fwr_fetch") /\ Goto(i, "fwr_text")

\* fetch rejects, or !response.ok
FetchFails ==
  \E i \in Inst : At(i, "fwr_fetch") /\ Resume(i, FetchWithRetryCatch(run[i], storage))

\* response.text() resolves: return text, and the caller goes on
TextResolves ==
  \E i \in Inst : At(i, "fwr_text") /\
    IF run[i].fwrCaller = "profile"
    THEN \E html \in ProfileBodies(run[i].caller,
                                   IF run[i].caller = "reviewer"
                                   THEN run[i].gameReviewers[run[i].processed]
                                   ELSE 0,
                                   run[i].page) :
           Resume(i, ProfileText(run[i], storage, html))
    ELSE \E json \in FeedBodies :
           Resume(i, FetchGameReviewersResponse(
                       [run[i] EXCEPT !.resp = [html |-> <<>>, json |-> json]], storage))

TextFails ==
  \E i \in Inst : At(i, "fwr_text") /\ Resume(i, FetchWithRetryCatch(run[i], storage))

ResumeBackoff ==
  \E i \in Inst : At(i, "fwr_backoff") /\
    Resume(i, FetchWithRetryAttempt([run[i] EXCEPT !.i = @ + 1, !.delayMs = 0],
                                    storage, shouldCancel))

ResumeFailLog ==
  \E i \in Inst : At(i, "fwr_faillog") /\
    Resume(i, FetchWithRetryRaise(run[i], storage, "Transport"))

\* --- analyzeGame, step 2, and fetchGameReviewers
ResumeAgLog2 ==
  \E i \in Inst : At(i, "ag_log2") /\
    Resume(i, M([run[i] EXCEPT !.pc = "ag_progress2"], updateProgress(storage, "Found")))

ResumeAgProgress2 == \E i \in Inst : At(i, "ag_progress2") /\ Goto(i, "ag_log3")

\* fetchGameReviewers: the locals, then logProgress
ResumeAgLog3 ==
  \E i \in Inst : At(i, "ag_log3") /\
    Resume(i, M([run[i] EXCEPT !.pc = "fgr_log0", !.reviewers = <<>>, !.totalFetched = 0,
                               !.requestCount = 0], storage))

ResumeFgrLog0 ==
  \E i \in Inst : At(i, "fgr_log0") /\
    Resume(i, FetchGameReviewersLoop(run[i], storage, shouldCancel))

ResumeFgrReqlog ==
  \E i \in Inst : At(i, "fgr_reqlog") /\
    Resume(i, fetchWithRetry(run[i], storage, shouldCancel, "discovery"))

\* The batch of n identities that follows the ones received so far.  An
\* identity is kept as its steamid: profileUrl is derived from it and
\* votedUp is never read.
Batch(from, n) == [k \in 1..n |-> from + k]

\* for (const review of data.reviews) push; totalFetched += ...; updateProgress
FgrReceive(r, st) ==
  M([r EXCEPT !.pc = "fgr_progress",
              !.reviewers = @ \o Batch(Len(@), r.resp.json.n),
              !.totalFetched = @ + r.resp.json.n],
    updateProgress(st, "Collected"))

ResumeFgrRecv == \E i \in Inst : At(i, "fgr_recv") /\ Resume(i, FgrReceive(run[i], storage))

ResumeFgrProgress == \E i \in Inst : At(i, "fgr_progress") /\ Goto(i, "fgr_totlog")

\* if (!data.cursor || data.reviews.length < 100 || totalFetched >= maxProfiles) break
FgrContinueAfterShortBatch(r, st) ==
  IF ~r.resp.json.cursor \/ r.totalFetched >= r.params.maxProfiles
  THEN M([r EXCEPT !.pc = "fgr_break", !.resp = NoBody], st)
  ELSE M([r EXCEPT !.pc = "fgr_delay", !.resp = NoBody, !.delayMs = BatchDelay], st)
FgrContinue(r, st) ==
  IF ~r.resp.json.cursor \/ r.resp.json.n < NumPerPage \/ r.totalFetched >= r.params.maxProfiles
  THEN M([r EXCEPT !.pc = "fgr_break", !.resp = NoBody], st)
  ELSE M([r EXCEPT !.pc = "fgr_delay", !.resp = NoBody, !.delayMs = BatchDelay], st)

ResumeFgrTotlog == \E i \in Inst : At(i, "fgr_totlog") /\ Resume(i, FgrContinue(run[i], storage))

ResumeFgrDelay ==
  \E i \in Inst : At(i, "fgr_delay") /\
    Resume(i, FetchGameReviewersLoop([run[i] EXCEPT !.delayMs = 0], storage, shouldCancel))

ResumeFgrBreak ==
  \E i \in Inst : At(i, "fgr_break") /\ Resume(i, FetchGameReviewersAfterLoop(run[i], storage))

ResumeFgrCatch ==
  \E i \in Inst : At(i, "fgr_catch") /\ Resume(i, FetchGameReviewersAfterLoop(run[i], storage))

ResumeFgrDone ==
  \E i \in Inst : At(i, "fgr_done") /\
    Resume(i, FetchGameReviewersReturn(run[i], storage, shouldCancel))

\* --- analyzeGame, step 3, and fetchAllReviewerData
ResumeAgLog4 ==
  \E i \in Inst : At(i, "ag_log4") /\
    Resume(i, M([run[i] EXCEPT !.pc = "ag_progress3"], updateProgress(storage, "Analyzing")))

ResumeAgProgress3 == \E i \in Inst : At(i, "ag_progress3") /\ Goto(i, "ag_log5")

ResumeAgLog5 ==
  \E i \in Inst : At(i, "ag_log5") /\
    Resume(i, M([run[i] EXCEPT !.pc = "fard_log0", !.reviewerData = <<>>, !.processed = 0,
                               !.successCount = 0, !.privateProfileCount = 0,
                               !.handed = Len(run[i].gameReviewers)], storage))

ResumeFardLog0 ==
  \E i \in Inst : At(i, "fard_log0") /\
    Resume(i, FetchAllReviewerDataLoop(run[i], storage, shouldCancel))

ResumeFardProgress == \E i \in Inst : At(i, "fard_progress") /\ Goto(i, "fard_log")

\* fetchReviewerReviews(reviewer.steamId): the numeric form first
ResumeFardLog ==
  \E i \in Inst : At(i, "fard_log") /\
    Resume(i, fetchAllReviewsFromProfile(run[i], storage, "reviewer", "profiles"))

\* privateProfileCount++, or push and successCount++; then the pause after
\* every 10th reviewer, or the next reviewer
FardOutcomePushAlways(r, st, sc) ==
  LET r1 == [r EXCEPT !.successCount = @ + 1, !.reviews = <<>>,
                      !.reviewerData =
                         Append(@, [steamId |-> r.gameReviewers[r.processed],
                                    reviews |-> r.reviews])]
  IN IF r.processed % CooldownEvery = 0
     THEN M([r1 EXCEPT !.pc = "fard_cooldown", !.delayMs = DELAY_BETWEEN_REQUESTS], st)
     ELSE FetchAllReviewerDataLoop(r1, st, sc)
FardOutcome(r, st, sc) ==
  LET r1 == IF Len(r.reviews) = 0
            THEN [r EXCEPT !.privateProfileCount = @ + 1]
            ELSE [r EXCEPT !.successCount = @ + 1, !.reviews = <<>>,
                           !.reviewerData =
                              Append(@, [steamId |-> r.gameReviewers[r.processed],
                                         reviews |-> r.reviews])]
  IN IF r.processed % CooldownEvery = 0
     THEN M([r1 EXCEPT !.pc = "fard_cooldown", !.delayMs = DELAY_BETWEEN_REQUESTS], st)
     ELSE FetchAllReviewerDataLoop(r1, st, sc)

ResumeFardOutcome ==
  \E i \in Inst : At(i, "fard_outcome") /\
    Resume(i, FardOutcome(run[i], storage, shouldCancel))

ResumeFardCooldown ==
  \E i \in Inst : At(i, "fard_cooldown") /\
    Resume(i, FetchAllReviewerDataLoop([run[i] EXCEPT !.delayMs = 0], storage, shouldCancel))

ResumeFardSummary ==
  \E i \in Inst : At(i, "fard_summary") /\
    Resume(i, FetchAllReviewerDataReturn(run[i], storage, shouldCancel))

\* --- analyzeGame, step 4
ResumeAgLog6 ==
  \E i \in Inst : At(i, "ag_log6") /\
    Resume(i, M([run[i] EXCEPT !.pc = "ag_progress4"], updateProgress(storage, "Calculating")))

ResumeAgProgress4 ==
  \E i \in Inst : At(i, "ag_progress4") /\
    Resume(i, M([run[i] EXCEPT !.pc = "ag_log7",
                   !.result = <<calculateScore(run[i].userReviews, run[i].reviewerData,
                                               run[i].params.appId, run[i].params.minOverlap,
                                               run[i].params.minSimilarity)>>],
                storage))

\* --- startBackgroundAnalysis after analyzeGame
\* if (shouldCancel) logProgress('Analysis cancelled') else set(Complete)
SbaAfterAnalyze(r, st, sc) ==
  IF sc THEN M([r EXCEPT !.pc = "sba_cancellog"], st)
  ELSE M([r EXCEPT !.pc = "sba_complete"], CompleteRecord(st, r.result))

ResumeAgLog7 ==
  \E i \in Inst : At(i, "ag_log7") /\ Resume(i, SbaAfterAnalyze(run[i], storage, shouldCancel))

ResumeSbaCancellog ==
  \E i \in Inst : At(i, "sba_cancellog") /\
    Resume(i, M([run[i] EXCEPT !.pc = "sba_cancelled"], CancelledRecord(storage)))

ResumeSbaCancelled == \E i \in Inst : At(i, "sba_cancelled") /\ Finish(i, "cancelled")

\* chrome.notifications.create (Steam Analysis Complete!)
ResumeSbaComplete == \E i \in Inst : At(i, "sba_complete") /\ Goto(i, "sba_notify")

NotifyResolves == \E i \in Inst : At(i, "sba_notify") /\ Goto(i, "sba_donelog")

\* catch (error), the error being another than 'Cancelled': set(Error)
SbaCatch(r, st, msg) == M([r EXCEPT !.pc = "sba_error", !.err = msg], ErrorRecord(st, msg))

\* The notification of success rejects: the catch of the same try takes it.
NotifyRejects ==
  \E i \in Inst : At(i, "sba_notify") /\ Resume(i, SbaCatch(run[i], storage, "Notification"))

ResumeSbaDonelog == \E i \in Inst : At(i, "sba_donelog") /\ Finish(i, "complete")

\* analyzeGame rethrows: catch (error) of startBackgroundAnalysis
ResumeAgCatch ==
  \E i \in Inst : At(i, "ag_catch") /\
    IF run[i].err # "Cancelled"
    THEN Resume(i, SbaCatch(run[i], storage, run[i].err))
    ELSE Finish(i, "silent")

\* chrome.notifications.create (Steam Analysis Failed)
ResumeSbaError == \E i \in Inst : At(i, "sba_error") /\ Goto(i, "sba_notify_failed")

NotifyFailedResolves == \E i \in Inst : At(i, "sba_notify_failed") /\ Goto(i, "sba_faillog")

\* The notification of failure rejects inside the catch: the invocation
\* ends with the exception and its last two assignments are not reached.
NotifyFailedRejects ==
  \E i \in Inst : At(i, "sba_notify_failed") /\
    /\ run' = [run EXCEPT ![i] = [IdleRun EXCEPT !.ended = "crashed",
                                                 !.cancelStage = run[i].cancelStage]]
    /\ UNCHANGED <<analysisInProgress, shouldCancel, storage, dropped, callVars>>

ResumeSbaFaillog == \E i \in Inst : At(i, "sba_faillog") /\ Finish(i, "failed")

Next ==
  \/ StartMessage \/ CancelMessage
  \/ ResumeSbaInit \/ ResumeAgProgress1 \/ ResumeAgLog1
  \/ ResumeFarpLog \/ ResumeFarpFound \/ ResumeFarpDelay \/ ResumeFarpCatch \/ ResumeFarpTotal
  \/ FetchResponds \/ FetchFails \/ TextResolves \/ TextFails \/ ResumeBackoff \/ ResumeFailLog
  \/ ResumeAgLog2 \/ ResumeAgProgress2 \/ ResumeAgLog3
  \/ ResumeFgrLog0 \/ ResumeFgrReqlog \/ ResumeFgrRecv \/ ResumeFgrProgress \/ ResumeFgrTotlog
  \/ ResumeFgrDelay \/ ResumeFgrBreak \/ ResumeFgrCatch \/ ResumeFgrDone
  \/ ResumeAgLog4 \/ ResumeAgProgress3 \/ ResumeAgLog5
  \/ ResumeFardLog0 \/ ResumeFardProgress \/ ResumeFardLog \/ ResumeFardOutcome
  \/ ResumeFardCooldown \/ ResumeFardSummary
  \/ ResumeAgLog6 \/ ResumeAgProgress4 \/ ResumeAgLog7
  \/ ResumeSbaCancellog \/ ResumeSbaCancelled \/ ResumeSbaComplete
  \/ NotifyResolves \/ NotifyRejects \/ ResumeSbaDonelog
  \/ ResumeAgCatch \/ ResumeSbaError \/ NotifyFailedResolves \/ NotifyFailedRejects
  \/ ResumeSbaFaillog

Spec == Init /\ [][Next]_vars

\* ------------------------------------------------------------------------
\* A run up to the return of fetchUserReviews, the subject's profile being
\* of any depth: page p answers with no review, with 7 reviews or with 10,
\* of the games p, p + 1, ... (so that successive pages share games).
\* ------------------------------------------------------------------------
Games(page, n) == [k \in 1..n |-> Review(page + k - 1, TRUE)]
DeepBodies(page) == {PageHtml(Games(page, n)) : n \in {0, 7, LastPageBelow}}

TextResolvesDeep ==
  \E i \in Inst : At(i, "fwr_text") /\ run[i].fwrCaller = "profile" /\
    \E html \in DeepBodies(run[i].page) : Resume(i, ProfileText(run[i], storage, html))

PageNext ==
  \/ StartMessage \/ CancelMessage
  \/ ResumeSbaInit \/ ResumeAgProgress1 \/ ResumeAgLog1
  \/ ResumeFarpLog \/ ResumeFarpFound \/ ResumeFarpDelay \/ ResumeFarpCatch \/ ResumeFarpTotal
  \/ FetchResponds \/ FetchFails \/ TextResolvesDeep \/ TextFails \/ ResumeBackoff
  \/ ResumeFailLog

PageSpec == Init /\ [][PageNext]_vars

\* ------------------------------------------------------------------------
\* One call of parseReviewsFromHTML, on any page of up to MaxPieces pieces:
\* links to two games, the two vote images, a stretch of text as long as
\* the lookback, which puts what is before it out of a marker's reach, one
\* that with a link before it fills the lookback exactly, and one character.
\* ------------------------------------------------------------------------
MaxPieces == 4

Pieces ==
  {Link(1, 40), Link(2, 40), Thumb(TRUE, 80), Thumb(FALSE, 80), Text(Lookback),
   Text(Lookback - 40), Text(1)}
Pages == UNION {[1..n -> Pieces] : n \in 0..MaxPieces}

ParseInit ==
  /\ NoAnalysis
  /\ parseInput \in Pages
  /\ parseOutput = <<>>
  /\ scoreInput = ScoreArgs(<<>>, <<>>, 0, 0, 0)
  /\ scoreOutput = <<>>

ParsePage ==
  /\ parseOutput = <<>>
  /\ parseOutput' = <<parseReviewsFromHTML(parseInput)>>
  /\ UNCHANGED <<pipeVars, parseInput, scoreInput, scoreOutput>>

ParseNext == ParsePage

ParseSpec == ParseInit /\ [][ParseNext]_vars

\* ------------------------------------------------------------------------
\* One call of calculateScore.  The subject has reviewed the games
\* 1..overlap + 1, the odd ones positively; a reviewer has reviewed the games
\* 1..overlap, agreeing on the first agreement of them, and holds the
\* entries targetVerdicts for the target game, in this order.  The call has
\* one such reviewer, or a crowd of up to MaxCrowd reviewers who match, some
\* of them liking the target, with or without one who does not match.
\* ------------------------------------------------------------------------
MaxOverlap == 50
MaxCrowd == 40
Target == MaxOverlap + 10

Subject(overlap) == [k \in 1..(overlap + 1) |-> Review(k, k % 2 = 1)]
Reviewer(overlap, agreement, targetVerdicts) ==
  [steamId |-> 1,
   reviews |-> [k \in 1..overlap |-> Review(k, (k % 2 = 1) = (k <= agreement))]
                 \o [k \in 1..Len(targetVerdicts) |-> Review(Target, targetVerdicts[k])]]
TargetVerdicts == {<<>>, <<TRUE>>, <<FALSE>>, <<TRUE, FALSE>>, <<FALSE, TRUE>>}

Crowd(matching, positive, others) ==
  [k \in 1..(matching + others) |->
     IF k <= matching THEN Reviewer(1, 1, <<k <= positive>>)
     ELSE Reviewer(1, 0, <<TRUE>>)]

Overlaps == {0, 1, 2, 3, MaxOverlap}
Crowds == {1, 2, 3, MaxCrowd}
ScoreInputs(overlaps, crowds) ==
  UNION {{ScoreArgs(Subject(o), <<Reviewer(o, a, tv)>>, Target, minOverlap, minSimilarity) :
            a \in 0..o, tv \in TargetVerdicts,
            minOverlap \in {0, 2, 3}, minSimilarity \in {0, 50, 58, 100}} :
         o \in overlaps}
    \cup UNION {{ScoreArgs(Subject(1), Crowd(m, p, q), Target, 1, 50) :
                   p \in 0..m, q \in {0, 1}} :
                m \in crowds}

ScoreInit ==
  /\ NoAnalysis
  /\ parseInput = <<>>
  /\ parseOutput = <<>>
  /\ scoreInput \in ScoreInputs(Overlaps, Crowds)
  /\ scoreOutput = <<>>

Score ==
  /\ scoreOutput = <<>>
  /\ scoreOutput' = <<calculateScore(scoreInput.userReviews, scoreInput.reviewerData,
                                     scoreInput.targetAppId, scoreInput.minOverlap,
                                     scoreInput.minSimilarity)>>
  /\ UNCHANGED <<pipeVars, parseInput, parseOutput, scoreInput>>

ScoreNext == Score

ScoreSpec == ScoreInit /\ [][ScoreNext]_vars

\* ========================================================================
\* Properties
\* ========================================================================
ValidSubject(i) == parseSteamId(run[i].params.steamId).id # Null
Started(i) == run'[i].pc # run[i].pc

\* C1: from the moment cancel is requested until the run ends, the run
\* writes no non-absent analysisError (stated for runs whose subject
\* identity is well formed).
C1_CancelWritesNoError ==
  [][\A i \in Inst :
       (Active(i) /\ ValidSubject(i) /\ shouldCancel
          /\ storage'.analysisError # storage.analysisError)
       => storage'.analysisError = Null]_pipeVars

\* C2: at most one pipeline instance is active in every reachable state, and
\* while analysisInProgress is set no step starts a pipeline (a request that
\* was ignored does not run later, e.g. when the running one ends).
ActiveRuns == {i \in Inst : Active(i)}
C2_SinglePipeline ==
  /\ [](Cardinality(ActiveRuns) <= 1)
  /\ [][analysisInProgress => \A i \in Inst : ~Active(i) => run'[i].pc = "idle"]_pipeVars
\* A start request arrived during a run and was ignored.
C2_Witness == dropped /\ Cardinality(ActiveRuns) = 1

\* C3: when the first cancel of a run arrives while the collector processes
\* reviewers, no result and no error is stored from then on, and the run
\* ends with analysisRunning = false.
C3_CancelDuringCollection ==
  \A i \in Inst :
    run[i].cancelStage = "collection" =>
      /\ storage.analysisResult = NoResult
      /\ storage.analysisError = Null
      /\ (~Active(i) => ~storage.analysisRunning)
\* A run ended after a cancel that came with some, not all, reviewers processed.
C3_Witness ==
  \E i \in Inst :
    /\ ~Active(i) /\ run[i].ended = "silent" /\ run[i].cancelStage = "collection"
    /\ run[i].processed >= 1 /\ run[i].processed < run[i].handed

\* C4: chrome.notifications.create is not called in a run in which cancel
\* was requested before the terminal record was written (stated for runs
\* whose subject identity is well formed).
C4_NoNotificationAfterCancel ==
  \A i \in Inst :
    (ValidSubject(i) /\ run[i].pc \in {"sba_notify", "sba_notify_failed"})
      => run[i].cancelStage \in {"none", "terminal"}

\* C5: once shouldCancel is set no fetch is initiated; fetchWithRetry, asked
\* for its first or its next attempt, raises 'Cancelled' to its caller; a
\* request in flight goes on to its text.
C5_NoRequestAfterCancel ==
  [][\A i \in Inst :
       /\ (run'[i].pc = "fwr_fetch" /\ run[i].pc # "fwr_fetch") => ~shouldCancel
       /\ (shouldCancel /\ run[i].pc \in {"farp_log", "fgr_reqlog", "fwr_backoff"}
             /\ Started(i))
          => (run'[i].err = "Cancelled" /\ run'[i].pc \in {"farp_catch", "fgr_catch"})]_pipeVars
\* fetchWithRetry raised 'Cancelled' after a cancel that came during a fetch.
C5_Witness ==
  \E i \in Inst :
    /\ run[i].pc \in {"farp_catch", "fgr_catch"} /\ run[i].err = "Cancelled"
    /\ shouldCancel

\* C6: fetchWithRetry makes at most 3 attempts; the wait after failed
\* attempt number k < 3 is 1000 * k ms; a successful attempt hands its text
\* to the caller with no further attempt; a transport error is raised only
\* after attempt 3 has failed.
AfterText == {"farp_found", "fgr_catch", "fgr_break", "fgr_recv"}
C6_RetryPolicy ==
  /\ [](\A i \in Inst :
          /\ run[i].pc \in {"fwr_fetch", "fwr_text"} => run[i].i + 1 <= 3
          /\ run[i].pc = "fwr_backoff" =>
               (run[i].i + 1 < 3 /\ run[i].delayMs = 1000 * (run[i].i + 1))
          /\ run[i].pc = "fwr_faillog" => run[i].i + 1 = 3)
  /\ [][\A i \in Inst :
          /\ (run[i].pc \in {"fwr_fetch", "fwr_text"} /\ run'[i].pc = "fwr_backoff")
               => run'[i].i = run[i].i
          /\ (run[i].pc = "fwr_backoff" /\ run'[i].pc = "fwr_fetch")
               => run'[i].i = run[i].i + 1
          /\ (run[i].pc = "fwr_text" /\ Started(i)
                /\ run'[i].pc \notin {"fwr_backoff", "fwr_faillog"})
               => run'[i].pc \in AfterText
          /\ (run'[i].err = "Transport" /\ run[i].err # "Transport")
               => (run[i].pc = "fwr_faillog" /\ run[i].i + 1 = 3)]_pipeVars
\* The third attempt has failed, with no cancel.
C6_Witness ==
  \E i \in Inst : run[i].pc = "fwr_faillog" /\ run[i].i = 2 /\ ~shouldCancel

\* C7 as stated: after a transport error in reviewer discovery the run is
\* never in collection or scoring.
C7_DiscoveryErrorAborts ==
  \A i \in Inst :
    run[i].discoveryError =>
      Stage(run[i]) \notin {"precollection", "collection", "scoring"}

\* C7, amended: a transport error in reviewer discovery ends discovery with
\* the reviewers of the batches before the failing one, cut at maxProfiles.
\* With none (the first batch failed) the run fails with 'No reviewers found
\* for this game.'; with some it goes on to collection; a cancel requested
\* by then ends it as cancelled instead.
GatheredBefore(r) ==
  Batch(0, Min(r.params.maxProfiles, NumPerPage * (r.requestCount - 1)))
C7_DiscoveryErrorKeepsEarlier ==
  /\ [](\A i \in Inst :
          (run[i].pc = "fgr_done" /\ run[i].discoveryError)
            => run[i].gameReviewers = GatheredBefore(run[i]))
  /\ [][\A i \in Inst :
          (run[i].pc = "fgr_done" /\ run[i].discoveryError /\ Started(i)) =>
            IF shouldCancel
            THEN run'[i].pc = "ag_catch" /\ run'[i].err = "Cancelled"
            ELSE IF run[i].requestCount = 1
            THEN run'[i].pc = "ag_catch" /\ run'[i].err = "NoReviewers"
            ELSE /\ run'[i].pc = "ag_log4"
                 /\ run'[i].gameReviewers = GatheredBefore(run[i])]_pipeVars
\* The second batch failed and the run has collected from the first one's
\* reviewers.
C7_Witness ==
  \E i \in Inst :
    /\ run[i].discoveryError /\ run[i].pc = "ag_log6"
    /\ Len(run[i].gameReviewers) = NumPerPage /\ ~shouldCancel

\* C8: a reviewer is counted as private/empty only after the vanity-name
\* form of the profile was attempted.
C8_VanityFormAttempted ==
  \A i \in Inst :
    (run[i].pc = "fard_outcome" /\ Len(run[i].reviews) = 0)
      => "id" \in run[i].formsTried

\* C9 as stated: the list of one parse pass holds no two entries of one
\* game with different verdicts.
C9_OneVerdictPerGame ==
  parseOutput # <<>> =>
    LET reviews == parseOutput[1].reviews
    IN \A m, n \in 1..Len(reviews) :
         reviews[m].appId = reviews[n].appId => reviews[m].isPositive = reviews[n].isPositive

\* C9, amended: the list of one parse pass holds each (game, verdict) pair
\* that a marker of the page resolves to exactly once, in the order of the
\* pairs' first markers; the two verdicts of one game are both kept.
Resolving(page) == {k \in 1..Len(page) : page[k].t = "thumb" /\ AppLinks(page, k) # {}}
PairAt(page, k) == Review(page[SetMax(AppLinks(page, k))].app, page[k].up)
C9_OncePerGameAndVerdict ==
  parseOutput # <<>> =>
    LET reviews == parseOutput[1].reviews
        firsts == {k \in Resolving(parseInput) :
                     \A j \in Resolving(parseInput) :
                       j < k => PairAt(parseInput, j) # PairAt(parseInput, k)}
    IN /\ Len(reviews) = Cardinality(firsts)
       /\ \A n \in 1..Len(reviews) :
            \E k \in firsts :
              /\ reviews[n] = PairAt(parseInput, k)
              /\ Cardinality({j \in firsts : j < k}) = n - 1
\* A page parsed with a marker that repeats a pair and a game kept with both
\* verdicts.
C9_Witness ==
  /\ parseOutput # <<>>
  /\ Cardinality(Resolving(parseInput)) > Len(parseOutput[1].reviews)
  /\ \E m, n \in 1..Len(parseOutput[1].reviews) :
       /\ parseOutput[1].reviews[m].appId = parseOutput[1].reviews[n].appId
       /\ parseOutput[1].reviews[m].isPositive # parseOutput[1].reviews[n].isPositive

\* C10: the one reviewer of a call, having overlapCount > 0, is counted as
\* matching iff overlapCount >= minOverlap and
\* agreementCount * 100 >= minSimilarity * overlapCount.
C10_MatchingIffThresholdsMet ==
  (scoreOutput # <<>> /\ Len(scoreInput.reviewerData) = 1) =>
    LET o == overlapCount(scoreInput.userReviews, scoreInput.reviewerData[1].reviews)
        a == agreementCount(scoreInput.userReviews, scoreInput.reviewerData[1].reviews)
    IN o > 0 =>
         (scoreOutput[1].matchingReviewers = 1
            <=> (o >= scoreInput.minOverlap /\ a * 100 >= scoreInput.minSimilarity * o))

\* C11: the one reviewer of a call, having overlapCount = 0, is counted as
\* matching exactly when minOverlap <= 0 and minSimilarity <= 0.
C11_NoOverlapMatchesAtZeroThresholds ==
  (scoreOutput # <<>> /\ Len(scoreInput.reviewerData) = 1) =>
    (overlapCount(scoreInput.userReviews, scoreInput.reviewerData[1].reviews) = 0 =>
       (scoreOutput[1].matchingReviewers = 1
          <=> (scoreInput.minOverlap <= 0 /\ scoreInput.minSimilarity <= 0)))

\* C12 as stated: positiveCount is the number of matching reviewers whose
\* reviews contain a positive entry for the target game.
Matching ==
  {k \in 1..Len(scoreInput.reviewerData) :
     IsMatching(scoreInput.userReviews, scoreInput.reviewerData[k].reviews,
                scoreInput.minOverlap, scoreInput.minSimilarity)}
C12_PositiveCountAnyEntry ==
  scoreOutput # <<>> =>
    scoreOutput[1].positiveCount =
      Cardinality({k \in Matching :
                     \E n \in 1..Len(scoreInput.reviewerData[k].reviews) :
                       scoreInput.reviewerData[k].reviews[n] = Review(scoreInput.targetAppId, TRUE)})

\* C12, amended: positiveCount is the number of matching reviewers whose
\* first entry for the target game is positive; matching reviewers with no
\* entry for the target game count toward matchingReviewers only.
FirstTargetEntryPositive(reviews) ==
  \E n \in 1..Len(reviews) :
    /\ reviews[n] = Review(scoreInput.targetAppId, TRUE)
    /\ \A j \in 1..(n - 1) : reviews[j].appId # scoreInput.targetAppId
C12_PositiveCountFirstEntry ==
  scoreOutput # <<>> =>
    /\ scoreOutput[1].matchingReviewers = Cardinality(Matching)
    /\ scoreOutput[1].positiveCount =
         Cardinality({k \in Matching :
                        FirstTargetEntryPositive(scoreInput.reviewerData[k].reviews)})
\* A matching reviewer with a positive entry for the target game and then a
\* negative one was counted.
C12_Witness ==
  /\ scoreOutput # <<>> /\ Len(scoreInput.reviewerData) = 1
  /\ scoreOutput[1].matchingReviewers = 1 /\ scoreOutput[1].positiveCount = 1
  /\ \E n \in 1..Len(scoreInput.reviewerData[1].reviews) :
       scoreInput.reviewerData[1].reviews[n] = Review(scoreInput.targetAppId, FALSE)

\* C13: with matchingReviewers > 0 the score is positiveCount /
\* matchingReviewers * 100 rounded to the nearest integer (a half rounds up)
\* and avgOverlap is the matching reviewers' total overlap over their
\* number; with matchingReviewers = 0 both are 0; and always
\* 0 <= positiveCount <= matchingReviewers <= totalReviewers, 0 <= score <= 100.
C13_ScoreIsRoundedShare ==
  scoreOutput # <<>> =>
    LET r == scoreOutput[1]
        overlaps == [k \in 1..Len(scoreInput.reviewerData) |->
                       IF k \in Matching
                       THEN overlapCount(scoreInput.userReviews,
                                         scoreInput.reviewerData[k].reviews)
                       ELSE 0]
    IN /\ r.matchingReviewers > 0 =>
            /\ r.score = (200 * r.positiveCount + r.matchingReviewers)
                           \div (2 * r.matchingReviewers)
            /\ r.avgOverlap = [num |-> SumOver(overlaps, 1, Len(overlaps)),
                               den |-> r.matchingReviewers]
       /\ r.matchingReviewers = 0 => (r.score = 0 /\ r.avgOverlap.num = 0)
       /\ 0 <= r.positiveCount /\ r.positiveCount <= r.matchingReviewers
       /\ r.matchingReviewers <= r.totalReviewers
       /\ 0 <= r.score /\ r.score <= 100

\* The pages 1..Len(sizes) of the subject's profile, one after the other.
RECURSIVE PagesInOrder(_, _)
PagesInOrder(sizes, n) ==
  IF n = 0 THEN <<>> ELSE PagesInOrder(sizes, n - 1) \o Games(n, sizes[n])
Fetching(r) ==
  r.pc \in {"farp_log", "fwr_fetch", "fwr_text", "fwr_backoff", "fwr_faillog", "farp_catch",
            "farp_delay"}
FullPages(sizes, n) == \A k \in 1..n : sizes[k] >= LastPageBelow

\* C14: the pages of a profile are requested in increasing index from 1,
\* each after full pages only; a page with fewer than 10 reviews (0
\* included) is the last one requested; what is returned is the pages
\* fetched, one after the other in page order, nothing removed.  For the
\* sizes 10, 10, 10, 7: four pages and 37 reviews.
C14_StopsAfterFirstShortPage ==
  /\ [](\A i \in Inst :
          /\ Fetching(run[i]) =>
               /\ run[i].page = Len(run[i].sizes) + 1
               /\ FullPages(run[i].sizes, Len(run[i].sizes))
          /\ run[i].pc = "farp_found" =>
               /\ run[i].page = Len(run[i].sizes)
               /\ run[i].sizes[run[i].page] = Len(run[i].reviews)
               /\ FullPages(run[i].sizes, Len(run[i].sizes) - 1)
               /\ run[i].allReviews = PagesInOrder(run[i].sizes, Len(run[i].sizes) - 1)
          /\ run[i].pc = "farp_total" =>
               /\ run[i].allReviews = PagesInOrder(run[i].sizes, Len(run[i].sizes))
               /\ run[i].sizes = <<10, 10, 10, 7>> =>
                    (run[i].page = 4 /\ Len(run[i].allReviews) = 37))
  /\ [][\A i \in Inst :
          /\ (run[i].pc = "farp_found" /\ Len(run[i].reviews) < 10 /\ Started(i))
               => run'[i].pc = "farp_total"
          /\ (run[i].pc = "farp_total" /\ Started(i))
               => (run'[i].pc \in {"ag_log2", "ag_catch"}
                     /\ (run'[i].pc = "ag_log2" => run'[i].userReviews = run[i].allReviews))
          /\ (run'[i].pc = "fwr_fetch" /\ run[i].pc = "farp_log")
               => run'[i].page = Len(run'[i].sizes) + 1]_pipeVars
\* Pages of 10, 10, 10 and 7 reviews were fetched.
C14_Witness ==
  \E i \in Inst : run[i].pc = "farp_total" /\ run[i].sizes = <<10, 10, 10, 7>>

\* C15: no page above 50 is requested; after 50 pages of at least 10
\* reviews each the fetcher returns what it has.
C15_PageCeiling ==
  /\ [](\A i \in Inst :
          /\ Len(run[i].sizes) <= 50
          /\ (run[i].pc \in {"farp_log", "fwr_fetch", "fwr_text", "fwr_backoff", "fwr_faillog",
                             "farp_found"})
               => (1 <= run[i].page /\ run[i].page <= 50))
  /\ [][\A i \in Inst :
          (run[i].pc = "farp_delay" /\ Len(run[i].sizes) = 50 /\ Started(i))
            => (run'[i].pc = "farp_total" /\ run'[i].allReviews = run[i].allReviews)]_pipeVars
\* Fifty full pages were fetched.
C15_Witness ==
  \E i \in Inst :
    /\ run[i].pc = "farp_total" /\ Len(run[i].sizes) = 50 /\ FullPages(run[i].sizes, 50)
    /\ Len(run[i].allReviews) = 500

\* C16: when the fetch of page k fails after its retries, no further page
\* of the profile is requested, nothing is raised out of the fetcher, and
\* the reviews of the pages 1..k-1 are what it returns.
C16_FetchErrorKeepsEarlierPages ==
  /\ [](\A i \in Inst :
          (run[i].pc = "farp_catch" /\ run[i].err = "Transport") =>
            /\ Len(run[i].sizes) = run[i].page - 1
            /\ run[i].allReviews = PagesInOrder(run[i].sizes, run[i].page - 1))
  /\ [][\A i \in Inst :
          (run[i].pc = "farp_catch" /\ run[i].err = "Transport" /\ Started(i)) =>
            /\ run'[i].pc = "farp_total" /\ run'[i].err = Null
            /\ run'[i].allReviews = run[i].allReviews
            /\ run'[i].page = run[i].page]_pipeVars
\* The fetch of page 3 failed after two full pages.
C16_Witness ==
  \E i \in Inst :
    /\ run[i].pc = "farp_catch" /\ run[i].err = "Transport" /\ run[i].page = 3
    /\ Len(run[i].allReviews) = 20

\* C17: a further batch is requested only after a response with success,
\* 100 reviews and a cursor, with the running total below maxProfiles and
\* cancel not set; any other response ends the requests, a response with
\* fewer than 100 reviews also when maxProfiles is not reached.
C17_FurtherBatchOnlyAfterFullBatch ==
  /\ [](\A i \in Inst :
          run[i].pc \in {"fgr_recv", "fgr_progress", "fgr_totlog"} =>
            (run[i].resp.json.parses /\ run[i].resp.json.success /\ run[i].resp.json.n > 0))
  /\ [][\A i \in Inst :
          /\ (run[i].pc = "fgr_totlog" /\ Started(i)) =>
               IF /\ run[i].resp.json.n = 100 /\ run[i].resp.json.cursor
                  /\ run[i].totalFetched < run[i].params.maxProfiles
               THEN run'[i].pc = "fgr_delay"
               ELSE run'[i].pc = "fgr_break"
          /\ (run'[i].pc = "fgr_reqlog" /\ run[i].pc # "fgr_reqlog"
                /\ run'[i].requestCount > 1) =>
               /\ run[i].pc = "fgr_delay" /\ ~shouldCancel
               /\ run[i].totalFetched < run[i].params.maxProfiles
          /\ (run[i].pc \in {"fgr_break", "fgr_catch"} /\ Started(i)) =>
               run'[i].pc = "fgr_done"]_pipeVars
\* A batch of one review ended discovery below maxProfiles.
C17_Witness ==
  \E i \in Inst :
    /\ run[i].pc = "fgr_break" /\ run[i].totalFetched = 1
    /\ run[i].totalFetched < run[i].params.maxProfiles /\ ~shouldCancel

\* C18: discovery returns the first min(maxProfiles, total received)
\* identities in feed order, and the collector processes no more than
\* maxProfiles reviewers.
C18_AtMostMaxProfiles ==
  \A i \in Inst :
    /\ run[i].pc = "fgr_done" =>
         /\ run[i].reviewers = Batch(0, run[i].totalFetched)
         /\ run[i].gameReviewers =
              Batch(0, Min(run[i].params.maxProfiles, run[i].totalFetched))
    /\ Active(i) =>
         /\ Len(run[i].gameReviewers) <= run[i].params.maxProfiles
         /\ run[i].processed <= Len(run[i].gameReviewers)
         /\ Len(run[i].reviewerData) <= run[i].processed
\* A batch of 100 was cut to the 2 asked for.
C18_Witness ==
  \E i \in Inst :
    /\ run[i].pc = "fgr_done" /\ run[i].totalFetched = 100
    /\ Len(run[i].gameReviewers) = 2

\* C19: a start request whose subject identity is invalid never sets the
\* record to running and leads to no network request.
C19_InvalidIdentityNeverRuns ==
  \A i \in Inst :
    (Active(i) /\ ~ValidSubject(i)) =>
      (~storage.analysisRunning /\ run[i].pc \notin {"fwr_fetch", "fwr_text"})

\* C20: once a run has ended and no run is active, the four keys of the
\* record change only in a step that starts a run; a cancel request then
\* leaves them as they are.
C20_TerminalRecordStays ==
  [][(~analysisInProgress /\ (\A i \in Inst : ~Active(i))
        /\ (\E i \in Inst : run[i].ended # "none") /\ storage' # storage)
     => \E i \in Inst : run'[i].pc # "idle"]_pipeVars

\* C21: while a run is active, the record is written by the pipeline only:
\* every step that changes one of its four keys is a step of the active
\* run (the run moves on), never one of a message listener.
C21_OnlyPipelineWritesRecord ==
  [][((\E i \in Inst : Active(i)) /\ storage' # storage)
     => \E i \in Inst : Active(i) /\ Started(i)]_pipeVars

\* C22: every accepted start ends with analysisInProgress cleared: once no
\* invocation of startBackgroundAnalysis is left, whatever the way the last
\* one ended, analysisInProgress is false and a start request is accepted.
C22_EveryStartEnds == (\A i \in Inst : ~Active(i)) => ~analysisInProgress

\* C23: once a run in which a cancel request arrived has stopped as
\* cancelled (by the 'Cancelled' exception or after analyzeGame returned),
\* the record reads analysisRunning = false and analysisProgress =
\* 'Cancelled', whatever the stage the cancel arrived in.
C23_CancelledRecordAfterCancel ==
  \A i \in Inst :
    (~Active(i) /\ run[i].ended \in {"silent", "cancelled"}
       /\ run[i].cancelStage # "none" /\ ~analysisInProgress)
      => (~storage.analysisRunning /\ storage.analysisProgress = "Cancelled")

AtLoopTop(r) == r.pc \in {"fard_log0", "fard_outcome", "fard_cooldown"}
\* The collection once the reviewer at hand, if any, is dealt with.
WithOutcome(r) ==
  IF r.pc = "fard_outcome" /\ Len(r.reviews) > 0
  THEN Append(r.reviewerData, [steamId |-> r.gameReviewers[r.processed], reviews |-> r.reviews])
  ELSE r.reviewerData

C25_OnlyNonEmptyRecords ==
  /\ [](\A i \in Inst :
          /\ \A k \in 1..Len(run[i].reviewerData) : Len(run[i].reviewerData[k].reviews) > 0
          /\ Stage(run[i]) \in {"collection", "scoring"} =>
               run[i].successCount + run[i].privateProfileCount
                 = run[i].processed - (IF Stage(run[i]) = "collection"
                                          /\ run[i].pc # "fard_cooldown" THEN 1 ELSE 0))
  /\ [][\A i \in Inst :
          /\ (run[i].pc = "farp_catch" /\ run[i].caller = "reviewer" /\ Started(i)) =>
               (run'[i].pc = "farp_total" /\ run'[i].allReviews = <<>>)
          /\ (run[i].pc = "farp_total" /\ run[i].caller = "reviewer" /\ Started(i)) =>
               (run'[i].pc = "fard_outcome" /\ run'[i].reviews = run[i].allReviews)
          /\ (run[i].pc = "fard_outcome" /\ Len(run[i].reviews) = 0 /\ Started(i)) =>
               /\ run'[i].reviewerData = run[i].reviewerData
               /\ run'[i].privateProfileCount = run[i].privateProfileCount + 1
               /\ run'[i].successCount = run[i].successCount
               /\ run'[i].pc =
                    IF run[i].processed % CooldownEvery = 0 THEN "fard_cooldown"
                    ELSE IF run[i].processed < Len(run[i].gameReviewers) /\ ~shouldCancel
                    THEN "fard_progress" ELSE "fard_summary"
          /\ (run'[i].pc = "ag_log7" /\ run[i].pc = "ag_progress4") =>
               run'[i].result[1].totalReviewers = Len(run[i].reviewerData)]_pipeVars
\* Reviewers without reviews were followed by further reviewers, and the
\* collection, of one record, went to the Scoring Engine.
C25_Witness ==
  \E i \in Inst :
    /\ run[i].pc = "ag_log7" /\ run[i].privateProfileCount >= 2
    /\ Len(run[i].reviewerData) = 1 /\ run[i].processed = Len(run[i].gameReviewers)

\* C26: at most one network request is in flight in every reachable state
\* (a fetch not yet settled, or a response whose text is awaited), and a
\* request is issued only when none is in flight, whatever the start
\* requests that arrive during a run.
InFlight == {i \in Inst : run[i].pc \in {"fwr_fetch", "fwr_text"}}
C26_OneRequestInFlight ==
  /\ [](Cardinality(InFlight) <= 1)
  /\ [][\A i \in Inst :
          (run'[i].pc = "fwr_fetch" /\ run[i].pc # "fwr_fetch") => InFlight = {}]_pipeVars
\* A start request arrived while a request of the run was in flight.
C26_Witness == dropped /\ Cardinality(InFlight) = 1 /\ analysisInProgress

\* The links before marker k that begin at most Lookback characters before it.
InWindow(page, k) ==
  {j \in 1..(k - 1) :
     page[j].t = "link" /\ Offset(page, k) - Offset(page, j) <= Lookback}
Markers(page) == {k \in 1..Len(page) : page[k].t = "thumb"}

\* C27: a marker is paired with the nearest of the links before it that lie
\* within the 2000 characters before the marker; a marker with no such link
\* gives no review and is counted as skipped; the call returns on every page.
C27_NearestLinkInWindow ==
  parseOutput # <<>> =>
    LET page == parseInput
        found == {k \in Markers(page) : InWindow(page, k) # {}}
        nearest(k) == CHOOSE j \in InWindow(page, k) : \A n \in InWindow(page, k) : n <= j
    IN /\ parseOutput[1].skipped = Cardinality(Markers(page) \ found)
       /\ {parseOutput[1].reviews[n] : n \in 1..Len(parseOutput[1].reviews)}
            = {Review(page[nearest(k)].app, page[k].up) : k \in found}
\* A page with a marker whose only link is just out of the window, and one
\* with two links in its window, the nearest of game 2.
C27_Witness ==
  /\ parseOutput # <<>>
  /\ parseOutput[1].skipped = 1
  /\ parseOutput[1].reviews = <<Review(2, TRUE)>>
  /\ \E k \in Markers(parseInput) :
       /\ InWindow(parseInput, k) = {}
       /\ \E j \in 1..(k - 1) : parseInput[j].t = "link"

\* C28: a start request is ignored only while the record reports
\* analysisRunning = true; one that arrives while it reports false starts a
\* pipeline.
C28_StartAcceptedWhenNotRunning ==
  [][(dropped' /\ ~dropped) => storage.analysisRunning]_pipeVars

\* C29: the record never holds a result and an error at the same time.
C29_ResultAndErrorExclusive ==
  ~(storage.analysisResult # NoResult /\ storage.analysisError # Null)

====
